---- MODULE Spec2Model ----
(***************************************************************************)
(* Model of the agent/task registry (AgentManagerCore) of the agent        *)
(* system: agent lifecycle, task assignment through the API adapter, idle  *)
(* detection and lifecycle events; and of the duplex adapter               *)
(* (WebSocketAPIAdapter): its handler table, its listener and the waits of *)
(* its operations.  Every coroutine runs in a slot; it advances in one     *)
(* step from one await to the next, so the interleavings of the model are  *)
(* those of the asyncio event loop.  Spec is the registry over an abstract *)
(* adapter, DuplexSpec the duplex adapter called directly, and             *)
(* AssignDuplexSpec the registry assigning tasks through the duplex one.   *)
(* BusSpec is the registry with handlers subscribed to its events,         *)
(* MaintSpec the registry with its clock, its status snapshot and the      *)
(* cleanup of old results, and ClientSpec the HTTP client library          *)
(* (AgentVMClient, AgentSession) answered by the backend.                  *)
(* DispatchSpec is the duplex adapter reading envelopes of every kind,     *)
(* SpawnSpec the registry next to the auto-spawn loop of the service, and  *)
(* ReentrySpec the registry with handlers that unsubscribe themselves.     *)
(***************************************************************************)
EXTENDS Integers, Sequences, FiniteSets, TLC

(* ---------------------------- bounds ---------------------------------- *)
\* coroutines of the registry that may be in flight at the same time
MaxCalls == 2
\* agent ids uuid4 hands out in one run
MaxAgentIds == 2
\* task ids (generated by uuid4 or supplied by the caller) in one run
MaxTaskIds == 2
\* largest configured system.max_agents
MaxAgentsCfg == 2
\* calls are no longer started once this many events were emitted
MaxEvents == 3
\* task ids the callers of the duplex adapter name in one run
MaxKeyIds == 1
\* handlers registered at the same time, under all event names together
MaxSubs == 2
\* hours the clock runs in one run
MaxHours == 2
\* runs of one session that return
MaxRuns == 2

Calls == 1..MaxCalls
AgentIds == 1..MaxAgentIds
TaskIds == 1..MaxTaskIds
KeyIds == 1..MaxKeyIds

\* the older_than_hours callers of cleanup_completed_tasks pass: none, one
\* hour, and the 24 of the default and of the cleanup loop
CleanupHours == {0, 1, 24}

\* the empty string of kwargs.get("task_id", "") / kwargs.get("agent_id", "")
NoId == 0
\* an adapter that was not injected
None == "None"

(* ---------------------------- state ----------------------------------- *)
VARIABLES
    agents,          \* self.agents: agent id -> type of the descriptor
    tasks,           \* self.tasks: task id -> TaskRequest
    task_results,    \* self.task_results: task id -> TaskResult
    api_adapter,     \* self.api_adapter
    entity_adapter,  \* self.entity_adapter
    max_agents,      \* self.max_agents
    next_agent,      \* number of agent ids uuid4 has handed out
    events,          \* lifecycle events in the order _emit_event was called
    calls,           \* the coroutines in flight: position and locals
    last,            \* the call that returned or raised last, and its outcome
    websocket,         \* WebSocketAPIAdapter.websocket
    _connected,        \* WebSocketAPIAdapter._connected
    _message_handlers, \* WebSocketAPIAdapter._message_handlers: key -> waiter
    listener,          \* the task running _message_listener
    link,              \* the connection as the remote end and close() leave it
    waits,             \* the adapter operations in flight: position and locals
    wlast,             \* what the adapter did last: an operation that ended
                       \* or an envelope _handle_message handled
    event_handlers,  \* self.event_handlers: event name -> list of handlers
    elast,           \* what the event handlers did last: an on, an off, or
                     \* the handlers one _emit_event called
    now,             \* the clock datetime.now() reads, in seconds
    mlast,           \* the maintenance call or status read that returned last
    results,         \* AgentSession.results
    sent,            \* the payload the client posted last to /agent/run
    clast,           \* the client call that returned or raised last
    spawn_loop       \* where the task of _auto_spawn_loop stands

vars == <<agents, tasks, task_results, api_adapter, entity_adapter,
          max_agents, next_agent, events, calls, last,
          websocket, _connected, _message_handlers, listener, link, waits,
          wlast, event_handlers, elast, now, mlast, results, sent, clast,
          spawn_loop>>

\* the clock, the maintenance calls and loops and the REST client: what no
\* operation of the registry or of the adapter writes
xvars == <<now, mlast, results, sent, clast, spawn_loop>>

\* the state of the WebSocketAPIAdapter
dvars == <<websocket, _connected, _message_handlers, listener, link, waits,
           wlast>>

\* ConfigurationService.get_agent_types(): the configured agent types
get_agent_types == <<"aider", "opencode", "claude">>

\* the types a caller asks for: a configured one and one that is not
RequestTypes == {"aider", "bogus"}

\* a call slot no coroutine runs in
IdleCall ==
    [op |-> "none", pc |-> "idle", agent |-> NoId, type |-> "", tid |-> NoId,
     remaining |-> {}, attempted |-> {}, cancel_failed |-> FALSE]

\* the outcome of a call: its arguments and locals, and what it returned
\* (ret: "true", "false", or "id" for the agent id of create_agent and the
\* task id of assign_task, held in agent and tid) or raised (fault)
Outcome(rec, ret, fault, raised) ==
    [op |-> rec.op, agent |-> rec.agent, type |-> rec.type, tid |-> rec.tid,
     attempted |-> rec.attempted, cancel_failed |-> rec.cancel_failed,
     ret |-> ret, fault |-> fault, raised |-> raised]

\* a new coroutine starts in slot c: the lowest slot no coroutine runs in
Free(c) ==
    /\ calls[c].pc = "idle"
    /\ \A d \in Calls : d < c => calls[d].pc # "idle"
    /\ Len(events) < MaxEvents

\* the record of a coroutine that starts now
NewCall(op, a, ty) == [IdleCall EXCEPT !.op = op, !.agent = a, !.type = ty]

\* the call in slot c returns ret
Return(c, rec, ret) ==
    /\ calls' = [calls EXCEPT ![c] = IdleCall]
    /\ last' = Outcome(rec, ret, "", FALSE)

\* the call in slot c raises fault
Raise(c, rec, fault) ==
    /\ calls' = [calls EXCEPT ![c] = IdleCall]
    /\ last' = Outcome(rec, "none", fault, FALSE)

\* the call in slot c suspends at the await named pc
Await(c, rec, pc) ==
    /\ calls' = [calls EXCEPT ![c] = [rec EXCEPT !.pc = pc]]
    /\ UNCHANGED last

(* ------------------ the duplex adapter: construction ------------------ *)
\* no payload: the Event of _wait_for_response has no data attribute yet
NoData == [set |-> FALSE, success |-> FALSE]

\* the data attribute handler(data) sets: the payload and its success field
Payload(flag) == [set |-> TRUE, success |-> flag]

\* a correlation key: the string prefix + id; the id alone (prefix "") is the
\* key of execute_agent, and NoId is the empty task id
Key(prefix, id) == [prefix |-> prefix, id |-> id]

\* a slot no adapter operation runs in
IdleWait ==
    [op |-> "none", pc |-> "idle", key |-> Key("", NoId), data |-> NoData,
     task |-> NoId, agent |-> NoId, timeout |-> 0]

\* TaskRequest(timeout: int = 600)
TaskTimeout == 600

\* the timeouts callers of assign_task name for the TaskRequest: none (the
\* default of TaskRequest) or half a minute
TaskTimeouts == {TaskTimeout, 30}

\* kwargs.get("timeout", 600) of execute_agent, and the timeouts
\* get_agent_status and cancel_task pass to _wait_for_response
ExecuteTimeout == 600
StatusTimeout == 10
CancelTimeout == 30

\* what the adapter did: op, under key, returned (success, error) or raised
\* (fault); observed is what _wait_for_response handed to the operation.
\* For _handle_message: the envelope handled (observed is its type, key its
\* data.task_id, success its flag) and the fault it ended the listener with
Did(op, key, observed, success, error, fault) ==
    [op |-> op, key |-> key, observed |-> observed, success |-> success,
     error |-> error, fault |-> fault]

\* WebSocketAPIAdapter.__init__: no connection, no handler, no listener
WebSocketAPIAdapter ==
    /\ websocket = None
    /\ _connected = FALSE
    /\ _message_handlers = << >>
    /\ listener = "none"
    /\ link = "none"
    /\ waits = [w \in Calls |-> IdleWait]
    /\ wlast = Did("none", Key("", NoId), "none", FALSE, "", "")

(* ------------- event handlers, clock, client: construction ------------ *)
\* what the event handlers did: op is "on", "off" or "_emit_event", with
\* its event name and handler (NoHandler when none was named); invoked is
\* the handlers _emit_event called, in the order it called them, and
\* escaped says that a fault of a handler left _emit_event
NoHandler == "None"

Heard(op, name, handler, invoked, escaped) ==
    [op |-> op, name |-> name, handler |-> handler, invoked |-> invoked,
     escaped |-> escaped]

\* the dict get_system_status returns (the counts and the connectivity)
Snapshot(total, idle, active, completed, failed, connected) ==
    [total_agents |-> total, idle_agents |-> idle, active_tasks |-> active,
     completed_tasks |-> completed, failed_tasks |-> failed,
     api_connected |-> connected]

\* no snapshot was taken
NoSnapshot == Snapshot(0, 0, 0, 0, 0, FALSE)

\* what a maintenance call returned: cleanup_completed_tasks(hours) its
\* count, get_system_status() its snapshot
Maintained(op, hours, removed, status) ==
    [op |-> op, hours |-> hours, removed |-> removed, status |-> status]

\* AgentResult: the dataclass built from the reply of the backend
AgentResult(success, returncode, error) ==
    [success |-> success, returncode |-> returncode, error |-> error]

\* the json argument of session.post
NoPayload == [agent |-> "", repo_path |-> None, timeout |-> 0]

\* no response was received
NoResponse == [status |-> 0, success |-> FALSE, returncode |-> 0,
               error |-> None]

\* what a client call did: called with repo_path and raise_on_error and
\* answered by response, it returned result, or raised (AgentExecutionError
\* carrying result, or the HTTPError of response.raise_for_status())
Ran(op, repo_path, raise_on_error, response, raised, result) ==
    [op |-> op, repo_path |-> repo_path, raise_on_error |-> raise_on_error,
     response |-> response, raised |-> raised, result |-> result]

\* AgentManagerCore.__init__ (handlers), the clock at the start,
\* AgentSession.__init__ and AgentAPIService.__init__: no handler, no
\* result, nothing posted, no loop started
Constructed ==
    /\ spawn_loop = "none"
    /\ event_handlers = << >>
    /\ elast = Heard("none", "", NoHandler, << >>, FALSE)
    /\ now = 0
    /\ mlast = Maintained("none", 0, 0, NoSnapshot)
    /\ results = << >>
    /\ sent = NoPayload
    /\ clast = Ran("none", None, FALSE, NoResponse, "",
                   AgentResult(FALSE, 0, None))

Init ==
    /\ Constructed
    /\ agents = << >>
    /\ tasks = << >>
    /\ task_results = << >>
    /\ api_adapter = None
    /\ entity_adapter = None
    /\ max_agents \in 1..MaxAgentsCfg
    /\ next_agent = 0
    /\ events = << >>
    /\ calls = [c \in Calls |-> IdleCall]
    /\ last = Outcome(IdleCall, "none", "", FALSE)
    /\ WebSocketAPIAdapter

(* ------------------------ helpers of the registry --------------------- *)
\* d with key k set to v (d[k] = v of a dict)
Put(d, k, v) == [x \in (DOMAIN d) \cup {k} |-> IF x = k THEN v ELSE d[x]]

\* d without key k (del d[k] of a dict that holds k)
Del(d, k) == [x \in (DOMAIN d) \ {k} |-> d[x]]

\* the lookup loop falling back to a default type for an unknown one
TypeConfigured_Fallback(ty) == TRUE

\* the lookup loop of create_agent: the type is among the configured ones
TypeConfigured(ty) == \E i \in 1..Len(get_agent_types) : get_agent_types[i] = ty

\* _emit_event(name, {"agent_id"/"task_id": id}) appended to the event stream
Emitted(name, id) == Append(events, [name |-> name, id |-> id])

\* the handlers callers register: one that returns and one that raises an
\* Exception when it is called
Handlers == {"f", "boom"}

Raises(h) == h = "boom"

\* _emit_event without its try/except: the fault of a handler leaves it
Caught_Never(h) == FALSE

\* the try/except Exception around handler(data): the fault is logged
Caught(h) == TRUE

\* _emit_event going through the list from its end
HandlersFor_NewestFirst(name) ==
    IF name \in DOMAIN event_handlers
    THEN [i \in 1..Len(event_handlers[name]) |->
             event_handlers[name][Len(event_handlers[name]) + 1 - i]]
    ELSE << >>

\* the list _emit_event iterates: self.event_handlers[event_name] when the
\* name has one, else nothing
HandlersFor(name) ==
    IF name \in DOMAIN event_handlers THEN event_handlers[name] ELSE << >>

\* a handler that unsubscribes itself when it is called: it calls
\* off(event_name, itself) on the registry
OneShot == "once"

\* the handlers of a caller that registers one-shot handlers
ReentrantHandlers == {"f", OneShot}

\* the handler calls off(event_name, itself) while _emit_event runs
CallsOff(h) == h = OneShot

\* a remove that takes every occurrence of the handler out of the list
Removed_Every(hs, h) == SelectSeq(hs, LAMBDA x : x # h)

\* list.remove(handler): the list without the first occurrence of the handler
Removed(hs, h) ==
    LET i == CHOOSE i \in 1..Len(hs) :
                hs[i] = h /\ \A j \in 1..(i - 1) : hs[j] # h
    IN  SubSeq(hs, 1, i - 1) \o SubSeq(hs, i + 1, Len(hs))

\* the loop `for handler in self.event_handlers[event_name]` from position
\* i of the list hs on: the iterator reads the list object by position, so
\* after a handler took an entry out of the list the next position is
\* read in the list as it then is; each handler read is called; a fault
\* that is not caught ends the loop; left is the list after the loop
RECURSIVE Invoke(_, _)
Invoke(hs, i) ==
    IF i > Len(hs) THEN [invoked |-> << >>, escaped |-> FALSE, left |-> hs]
    ELSE LET after == IF CallsOff(hs[i]) THEN Removed(hs, hs[i]) ELSE hs
         IN  IF Raises(hs[i]) /\ ~Caught(hs[i])
             THEN [invoked |-> <<hs[i]>>, escaped |-> TRUE, left |-> after]
             ELSE LET rest == Invoke(after, i + 1)
                  IN  [invoked |-> <<hs[i]>> \o rest.invoked,
                       escaped |-> rest.escaped, left |-> rest.left]

\* _emit_event(name, data): the event joins the stream and the handlers of
\* the name are called before it returns; the list of the name is left as
\* the handlers left it
_emit_event(name, id) ==
    /\ events' = Emitted(name, id)
    /\ LET run == Invoke(HandlersFor(name), 1)
       IN  /\ elast' = Heard("_emit_event", name, NoHandler, run.invoked,
                             run.escaped)
           /\ event_handlers' =
                 IF name \in DOMAIN event_handlers
                 THEN Put(event_handlers, name, run.left)
                 ELSE event_handlers

\* result.completed_at = datetime.now() of assign_task, and the
\* completed_at=datetime.now() of its error result
Stamped(result) == [completed_at |-> now] @@ result

\* set_adapters(api_adapter, entity_adapter), called once on a registry, as
\* AgentAPIService.__init__ does
set_adapters(api, ent) ==
    /\ UNCHANGED <<dvars, xvars>>
    /\ api_adapter = None /\ entity_adapter = None
    /\ api_adapter' = api
    /\ entity_adapter' = ent
    /\ UNCHANGED <<agents, tasks, task_results, max_agents,
                   event_handlers, next_agent, events, elast, calls, last>>

(* ----------------------------- create_agent --------------------------- *)
\* the capacity check with > for >=
AtCapacity_OffByOne == Cardinality(DOMAIN agents) > max_agents

\* the capacity check counting the agents ever created, not the live ones
AtCapacity_EverCreated == next_agent >= max_agents

\* the capacity check of create_agent
AtCapacity == Cardinality(DOMAIN agents) >= max_agents

\* create_agent up to its first await: capacity check, type lookup,
\* registration; without an entity adapter also the event and the return
CreateCall(c, ty) ==
    /\ UNCHANGED <<dvars, xvars>>
    /\ Free(c)
    /\ AtCapacity \/ ~TypeConfigured(ty) \/ next_agent < MaxAgentIds
    /\ UNCHANGED <<tasks, task_results, api_adapter, entity_adapter,
                   max_agents>>
    /\ IF AtCapacity
       THEN /\ Raise(c, NewCall("create", NoId, ty), "CapacityExceeded")
            /\ UNCHANGED <<agents, next_agent, events, elast, event_handlers>>
       ELSE IF ~TypeConfigured(ty)
       THEN /\ Raise(c, NewCall("create", NoId, ty), "UnknownAgentType")
            /\ UNCHANGED <<agents, next_agent, events, elast, event_handlers>>
       ELSE LET id == next_agent + 1 IN
            /\ next_agent' = id
            /\ agents' = Put(agents, id, ty)
            /\ IF entity_adapter # None
               THEN /\ Await(c, NewCall("create", id, ty), "entity")
                    /\ UNCHANGED <<events, elast, event_handlers>>
               ELSE /\ _emit_event("agent_created", id)
                    /\ Return(c, NewCall("create", id, ty), "id")

\* create_agent resumed after await entity_adapter.create_agent(...): the
\* collaborator returned (ok) or raised
CreateEntityDone(c, ok) ==
    /\ UNCHANGED <<dvars, xvars>>
    /\ calls[c].op = "create" /\ calls[c].pc = "entity"
    /\ UNCHANGED <<agents, tasks, task_results, api_adapter, entity_adapter,
                   max_agents, next_agent>>
    /\ IF ok
       THEN /\ _emit_event("agent_created", calls[c].agent)
            /\ Return(c, calls[c], "id")
       ELSE /\ Raise(c, calls[c], "EntityFault")
            /\ UNCHANGED <<events, elast, event_handlers>>

(* ----------------------------- destroy_agent -------------------------- *)
\* cancel_agent_tasks: the TaskRequests of the agent, results or not
agent_tasks(a) == {t \in DOMAIN tasks : tasks[t].agent_id = a}

\* del self.agents[agent_id], the event and the return of destroy_agent; del
\* raises KeyError when the descriptor is no longer there
DestroyRemove(c, rec) ==
    IF rec.agent \in DOMAIN agents
    THEN /\ agents' = Del(agents, rec.agent)
         /\ _emit_event("agent_destroyed", rec.agent)
         /\ Return(c, rec, "true")
    ELSE /\ Raise(c, rec, "KeyError")
         /\ UNCHANGED <<agents, events, elast, event_handlers>>

\* destroy_agent after cancel_agent_tasks returned: await the entity
\* adapter when there is one, else remove
DestroyEntity(c, rec) ==
    IF entity_adapter # None
    THEN /\ Await(c, rec, "entity")
         /\ UNCHANGED <<agents, events, elast, event_handlers>>
    ELSE DestroyRemove(c, rec)

\* the loop of cancel_agent_tasks from one iteration on: without an adapter
\* the tasks are skipped, with one the cancel of the next task is invoked
\* and awaited (the dict's iteration order is left open)
CancelLoop(c, rec) ==
    IF rec.remaining = {} \/ api_adapter = None
    THEN DestroyEntity(c, [rec EXCEPT !.remaining = {}])
    ELSE \E t \in rec.remaining :
            /\ Await(c, [rec EXCEPT !.remaining = @ \ {t},
                                    !.attempted = @ \cup {t}], "cancel")
            /\ UNCHANGED <<agents, events, elast, event_handlers>>

\* destroy_agent without its check
DestroyKnown_Unchecked(a) == TRUE

\* the check of destroy_agent: agent_id in self.agents
DestroyKnown(a) == a \in DOMAIN agents

\* destroy_agent up to its first await
DestroyCall(c, a) ==
    /\ UNCHANGED <<dvars, xvars>>
    /\ Free(c)
    /\ UNCHANGED <<tasks, task_results, api_adapter, entity_adapter,
                   max_agents, next_agent>>
    /\ IF ~DestroyKnown(a)
       THEN /\ Return(c, NewCall("destroy", a, ""), "false")
            /\ UNCHANGED <<agents, events, elast, event_handlers>>
       ELSE CancelLoop(c, [NewCall("destroy", a, "") EXCEPT
                               !.remaining = agent_tasks(a)])

\* cancel_agent_tasks resumed after await api_adapter.cancel_task(task.id):
\* the adapter returned True or False or raised (caught and logged)
DestroyCancelDone(c, outcome) ==
    /\ UNCHANGED <<dvars, xvars>>
    /\ calls[c].op = "destroy" /\ calls[c].pc = "cancel"
    /\ UNCHANGED <<tasks, task_results, api_adapter, entity_adapter,
                   max_agents, next_agent>>
    /\ CancelLoop(c, [calls[c] EXCEPT
                        !.cancel_failed = @ \/ outcome # "true"])

\* destroy_agent resumed after await entity_adapter.destroy_agent(agent_id)
DestroyEntityDone(c, ok) ==
    /\ UNCHANGED <<dvars, xvars>>
    /\ calls[c].op = "destroy" /\ calls[c].pc = "entity"
    /\ UNCHANGED <<tasks, task_results, api_adapter, entity_adapter,
                   max_agents, next_agent>>
    /\ IF ok
       THEN DestroyRemove(c, calls[c])
       ELSE /\ Raise(c, calls[c], "EntityFault")
            /\ UNCHANGED <<agents, events, elast, event_handlers>>

\* get_agent(agent_id): the descriptor's id, NoId for Python's None
get_agent(a) == IF a \in DOMAIN agents THEN a ELSE NoId

(* ----------------------------- idle agents ---------------------------- *)
\* get_idle_agents() without the task loop: every registered agent
get_idle_agents_All == DOMAIN agents

\* get_idle_agents(): the registered agents the loop finds no task for
get_idle_agents ==
    {a \in DOMAIN agents : {t \in DOMAIN tasks : tasks[t].agent_id = a} = {}}

(* ----------------------------- assign_task ---------------------------- *)
\* TaskRequest.__init__: the id is the task_id keyword when one is given
\* (supplied # NoId), else a fresh uuid4.  Ids are opaque, so a keyword that
\* names no TaskRequest yet acts as a fresh id: the callers of the model
\* supply ids of the task map only
TaskRequestId(supplied) ==
    IF supplied # NoId THEN supplied
    ELSE CHOOSE t \in TaskIds \ DOMAIN tasks :
            \A u \in TaskIds \ DOMAIN tasks : t <= u

\* the first check of assign_task: agent_id in self.agents
AssignKnown(a) == a \in DOMAIN agents

\* assign_task without its adapter check
AdapterConfigured_Unchecked == TRUE

\* the second check of assign_task: self.api_adapter is set
AdapterConfigured == api_adapter # None

\* assign_task up to await api_adapter.execute_agent(...)
AssignCall(c, a, supplied) ==
    /\ UNCHANGED <<dvars, xvars>>
    /\ Free(c)
    /\ supplied \in (DOMAIN tasks) \cup {NoId}
    /\ supplied = NoId => TaskIds \ DOMAIN tasks # {}
    /\ UNCHANGED <<agents, task_results, api_adapter, entity_adapter,
                   max_agents, event_handlers, next_agent, events, elast>>
    /\ IF ~AssignKnown(a)
       THEN /\ Raise(c, NewCall("assign", a, ""), "UnknownAgent")
            /\ UNCHANGED tasks
       ELSE IF ~AdapterConfigured
       THEN /\ Raise(c, NewCall("assign", a, ""), "AdapterUnavailable")
            /\ UNCHANGED tasks
       ELSE LET tid == TaskRequestId(supplied) IN
            /\ tasks' = Put(tasks, tid, [id |-> tid, agent_id |-> a,
                                         timeout |-> TaskTimeout])
            /\ Await(c, [NewCall("assign", a, agents[a]) EXCEPT !.tid = tid],
                     "exec")

\* the TaskResult an adapter builds: execute_agent is called without the
\* task_id and agent_id keywords, so both default to the empty string
AdapterResult(success) ==
    [id |-> NoId, agent_id |-> NoId, success |-> success]

\* the except branch building a result with the default success=True
ErrorResult_DefaultSuccess(tid, a) == [id |-> tid, agent_id |-> a, success |-> TRUE]

\* the TaskResult assign_task builds in its except branch
ErrorResult(tid, a) == [id |-> tid, agent_id |-> a, success |-> FALSE]

\* assign_task resumed after the await: the adapter returned a TaskResult
\* (success or failure) or raised; the result is stored and the event emitted
AssignExecDone(c, outcome) ==
    /\ UNCHANGED <<dvars, xvars>>
    /\ calls[c].op = "assign" /\ calls[c].pc = "exec"
    /\ UNCHANGED <<agents, tasks, api_adapter, entity_adapter, max_agents, next_agent>>
    /\ calls' = [calls EXCEPT ![c] = IdleCall]
    /\ last' = Outcome([calls[c] EXCEPT !.type = ""], "id", "", outcome = "raise")
    /\ IF outcome = "raise"
       THEN /\ task_results' = Put(task_results, calls[c].tid,
                                   Stamped(ErrorResult(calls[c].tid,
                                                       calls[c].agent)))
            /\ _emit_event("task_failed", calls[c].tid)
       ELSE /\ task_results' = Put(task_results, calls[c].tid,
                                   Stamped(AdapterResult(outcome = "success")))
            /\ _emit_event("task_completed", calls[c].tid)

(* --------------------------- event handlers --------------------------- *)
\* the names callers register handlers under and unregister: one that
\* each of create_agent, destroy_agent and assign_task calls _emit_event
\* with (assign_task also calls it with "task_failed")
EventNames == {"agent_created", "agent_destroyed", "task_completed"}

\* the handlers registered under all names together
Subscriptions ==
    LET RECURSIVE Sum(_)
        Sum(S) == IF S = {} THEN 0
                  ELSE LET n == CHOOSE n \in S : TRUE
                       IN  Len(event_handlers[n]) + Sum(S \ {n})
    IN  Sum(DOMAIN event_handlers)

\* on(event_name, handler): the handler is appended to the list of the name,
\* which is created when the name has none
on(name, h) ==
    /\ Subscriptions < MaxSubs
    /\ event_handlers' =
          Put(event_handlers, name,
              Append(IF name \in DOMAIN event_handlers
                     THEN event_handlers[name] ELSE << >>, h))
    /\ elast' = Heard("on", name, h, << >>, FALSE)
    /\ UNCHANGED <<agents, tasks, task_results, api_adapter, entity_adapter,
                   max_agents, next_agent, events, calls, last>>
    /\ UNCHANGED <<dvars, xvars>>

\* off(event_name, handler=None): for a name that has a list, the handler
\* is removed from it when it is there, and without a handler the list is
\* cleared; a name without list is left alone
off(name, h) ==
    /\ event_handlers' =
          IF name \notin DOMAIN event_handlers THEN event_handlers
          ELSE IF h = NoHandler THEN Put(event_handlers, name, << >>)
          ELSE IF \E i \in 1..Len(event_handlers[name]) :
                     event_handlers[name][i] = h
          THEN Put(event_handlers, name, Removed(event_handlers[name], h))
          ELSE event_handlers
    /\ elast' = Heard("off", name, h, << >>, FALSE)
    /\ UNCHANGED <<agents, tasks, task_results, api_adapter, entity_adapter,
                   max_agents, next_agent, events, calls, last>>
    /\ UNCHANGED <<dvars, xvars>>

(* ------------------ the duplex adapter: operations -------------------- *)
\* the state of the registry
rvars == <<agents, tasks, task_results, api_adapter, entity_adapter,
           max_agents, next_agent, events, calls, last, event_handlers,
           elast>>

\* the correlation keys in use: the task id (or the empty string) for
\* execute_agent, f"status_{task_id}" and f"cancel_{task_id}" for the others
Keys ==
    {Key("", t) : t \in KeyIds \cup {NoId}}
        \cup {Key(p, t) : p \in {"status_", "cancel_"}, t \in KeyIds}

\* the envelopes the remote end sends: a task_result with data.task_id (and
\* data.success, here true), a status_update, a connection_status with
\* data.connected, and a JSON text that is not an object (or whose data is
\* not one)
Envelopes ==
    [type : {"task_result"}, task_id : Keys, flag : {TRUE}]
        \cup [type : {"connection_status"}, task_id : {Key("", NoId)},
              flag : BOOLEAN]
        \cup [type : {"status_update", "non_object"},
              task_id : {Key("", NoId)}, flag : {FALSE}]

\* the task_result envelopes for the key of an execute_agent that names no
\* task_id, reporting success or failure
Replies == [type : {"task_result"}, task_id : {Key("", NoId)}, flag : BOOLEAN]

\* what the remote end sends on a connection that carries all three
\* operations: envelopes that name the key of an operation, of the kind
\* task_result, of the kind status_update, and of a kind _handle_message
\* does not name; a text that is not JSON, a JSON text that is not an
\* object, and an object without type and data
Inbound ==
    [type : {"task_result", "status_update", "cancel_result"},
     task_id : Keys \ {Key("", NoId)}, flag : {TRUE}]
        \cup [type : {"not_json", "non_object", "untyped"},
              task_id : {Key("", NoId)}, flag : {FALSE}]

\* a new adapter operation starts in slot w: the lowest slot none runs in
FreeWait(w) ==
    /\ waits[w].pc = "idle"
    /\ \A d \in Calls : d < w => waits[d].pc # "idle"

\* the operation in slot w ends, having done did
EndWait(w, did) ==
    /\ waits' = [waits EXCEPT ![w] = IdleWait]
    /\ wlast' = did

\* the operation op with correlation key k, which will wait for timeout
\* seconds, suspends in websocket.send
Sending(w, op, k, task, a, timeout) ==
    waits' = [waits EXCEPT ![w] = [IdleWait EXCEPT !.op = op, !.pc = "send",
                                       !.key = k, !.task = task, !.agent = a,
                                       !.timeout = timeout]]

\* initialize(): connect, mark connected and start the listener task (a
\* connect that fails leaves the adapter as constructed)
initialize ==
    /\ websocket = None /\ listener = "none"
    /\ websocket' = "ws"
    /\ _connected' = TRUE
    /\ listener' = "running"
    /\ link' = "open"
    /\ UNCHANGED <<_message_handlers, waits, wlast>>
    /\ UNCHANGED <<rvars, xvars>>

\* cleanup(): close the connection when there is one, forget it, mark the
\* adapter disconnected
cleanup ==
    /\ websocket # None \/ _connected
    /\ websocket' = None
    /\ _connected' = FALSE
    /\ link' = IF websocket # None /\ link = "open" THEN "closed" ELSE link
    /\ UNCHANGED <<_message_handlers, listener, waits, wlast>>
    /\ UNCHANGED <<rvars, xvars>>

\* the remote end closes the connection: with a normal close frame
\* ("closed") or abnormally ("lost")
RemoteClose(how) ==
    /\ link = "open"
    /\ link' = how
    /\ UNCHANGED <<websocket, _connected, _message_handlers, listener,
                   waits, wlast>>
    /\ UNCHANGED <<rvars, xvars>>

\* the TaskResult of execute_agent for a payload
PayloadResult(task_id, flag) ==
    [id |-> task_id, agent_id |-> NoId, success |-> flag, error |-> ""]

\* the TaskResult of execute_agent when _wait_for_response returned None,
\* built with the default success=True
TimeoutResult_DefaultSuccess(task_id) ==
    [id |-> task_id, agent_id |-> NoId, success |-> TRUE,
     error |-> "Timeout waiting for response"]

\* the TaskResult of execute_agent when _wait_for_response returned None
TimeoutResult(task_id) ==
    [id |-> task_id, agent_id |-> NoId, success |-> FALSE,
     error |-> "Timeout waiting for response"]

\* the TaskResult of the except branch of execute_agent
FailedResult(task_id) ==
    [id |-> task_id, agent_id |-> NoId, success |-> FALSE,
     error |-> "WebSocket task execution failed"]

\* execute_agent returns result; when assign_task is the caller (task is
\* its TaskRequest) assign_task stores the result, emits task_completed and
\* returns the task id
ExecuteReturns(w, result, observed) ==
    /\ EndWait(w, Did("execute_agent", waits[w].key, observed,
                      result.success, result.error, ""))
    /\ IF waits[w].task # NoId
       THEN /\ task_results' = Put(task_results, waits[w].task, Stamped(result))
            /\ _emit_event("task_completed", waits[w].task)
            /\ last' = Outcome([NewCall("assign", waits[w].agent, "") EXCEPT
                                   !.tid = waits[w].task], "id", "", FALSE)
       ELSE UNCHANGED <<task_results, events, elast, event_handlers, last>>

\* execute_agent(agent_type, prompt, task_id=t) called on the adapter (t is
\* NoId without the keyword) up to await self.websocket.send(...)
execute_agent(w, t) ==
    /\ FreeWait(w)
    /\ UNCHANGED <<websocket, _connected, _message_handlers, listener, link>>
    /\ UNCHANGED <<rvars, xvars>>
    /\ IF websocket = None
       THEN /\ wlast' = Did("execute_agent", Key("", t), "none", FALSE, "",
                            "RuntimeError")
            /\ UNCHANGED waits
       ELSE /\ Sending(w, "execute_agent", Key("", t), NoId, NoId,
                            ExecuteTimeout)
            /\ UNCHANGED wlast

\* assign_task(agent_id, prompt, timeout=timeout) of a registry whose
\* adapter is the duplex one, up to the send of execute_agent: the checks,
\* the TaskRequest, and execute_agent(type, prompt) called without keywords,
\* so that its task_id is the empty string and its timeout the default; a
\* RuntimeError of execute_agent reaches the except branch of assign_task
AssignExecute(w, a, timeout) ==
    /\ FreeWait(w)
    /\ UNCHANGED xvars
    /\ Len(events) < MaxEvents
    /\ TaskIds \ DOMAIN tasks # {}
    /\ UNCHANGED <<websocket, _connected, _message_handlers, listener, link>>
    /\ UNCHANGED <<agents, api_adapter, entity_adapter, max_agents, next_agent, calls>>
    /\ IF a \notin DOMAIN agents
       THEN /\ last' = Outcome(NewCall("assign", a, ""), "none",
                               "UnknownAgent", FALSE)
            /\ UNCHANGED <<tasks, task_results, events, elast, event_handlers, waits, wlast>>
       ELSE IF api_adapter = None
       THEN /\ last' = Outcome(NewCall("assign", a, ""), "none",
                               "AdapterUnavailable", FALSE)
            /\ UNCHANGED <<tasks, task_results, events, elast, event_handlers, waits, wlast>>
       ELSE LET tid == TaskRequestId(NoId) IN
            /\ tasks' = Put(tasks, tid, [id |-> tid, agent_id |-> a,
                                         timeout |-> timeout])
            /\ IF websocket = None
               THEN /\ wlast' = Did("execute_agent", Key("", NoId), "none",
                                    FALSE, "", "RuntimeError")
                    /\ task_results' = Put(task_results, tid,
                                           Stamped(ErrorResult(tid, a)))
                    /\ _emit_event("task_failed", tid)
                    /\ last' = Outcome([NewCall("assign", a, "") EXCEPT
                                           !.tid = tid], "id", "", TRUE)
                    /\ UNCHANGED waits
               ELSE /\ Sending(w, "execute_agent", Key("", NoId), tid, a,
                                    ExecuteTimeout)
                    /\ UNCHANGED <<task_results, events, elast, event_handlers, last, wlast>>

\* get_agent_status(task_id) up to the send; without a connection
\* self.websocket.send is an attribute of None
get_agent_status(w, t) ==
    /\ FreeWait(w)
    /\ UNCHANGED <<websocket, _connected, _message_handlers, listener, link>>
    /\ UNCHANGED <<rvars, xvars>>
    /\ IF websocket = None
       THEN /\ wlast' = Did("get_agent_status", Key("status_", t), "none",
                            FALSE, "", "AttributeError")
            /\ UNCHANGED waits
       ELSE /\ Sending(w, "get_agent_status", Key("status_", t), NoId, NoId,
                            StatusTimeout)
            /\ UNCHANGED wlast

\* cancel_task(task_id) up to the send; every fault is caught and makes the
\* operation return False
cancel_task(w, t) ==
    /\ FreeWait(w)
    /\ UNCHANGED <<websocket, _connected, _message_handlers, listener, link>>
    /\ UNCHANGED <<rvars, xvars>>
    /\ IF websocket = None
       THEN /\ wlast' = Did("cancel_task", Key("cancel_", t), "none", FALSE,
                            "", "")
            /\ UNCHANGED waits
       ELSE /\ Sending(w, "cancel_task", Key("cancel_", t), NoId, NoId,
                            CancelTimeout)
            /\ UNCHANGED wlast

\* _wait_for_response(response_key) up to await asyncio.wait_for(...): the
\* handler of this wait is stored under the key
_wait_for_response(w) ==
    /\ _message_handlers' = Put(_message_handlers, waits[w].key, w)
    /\ waits' = [waits EXCEPT ![w].pc = "wait"]
    /\ UNCHANGED <<wlast, task_results, events, elast, event_handlers, last>>

\* websocket.send raised ConnectionClosed: execute_agent returns the result
\* of its except branch, get_agent_status lets the fault through,
\* cancel_task returns False
SendFailed(w) ==
    /\ UNCHANGED _message_handlers
    /\ IF waits[w].op = "execute_agent"
       THEN ExecuteReturns(w, FailedResult(waits[w].key.id), "none")
       ELSE /\ EndWait(w, Did(waits[w].op, waits[w].key, "none", FALSE, "",
                              IF waits[w].op = "get_agent_status"
                              THEN "ConnectionClosed" ELSE ""))
            /\ UNCHANGED <<task_results, events, elast, event_handlers, last>>

\* the operation resumed after await self.websocket.send(...): the send
\* went out and the wait is registered, or the connection was closed
SendDone(w) ==
    /\ waits[w].pc = "send"
    /\ UNCHANGED xvars
    /\ UNCHANGED <<websocket, _connected, listener, link>>
    /\ UNCHANGED <<agents, tasks, api_adapter, entity_adapter, max_agents, next_agent, calls>>
    /\ IF link = "open" THEN _wait_for_response(w) ELSE SendFailed(w)

\* a wait without a deadline
TimerArmed_Never(w) == FALSE

\* asyncio.wait_for(..., timeout=timeout): each of the three operations
\* passes a deadline (600, 10 and 30 seconds unless the caller of
\* execute_agent names another)
TimerArmed(w) ==
    waits[w].op \in {"execute_agent", "get_agent_status", "cancel_task"}

\* the deadline of asyncio.wait_for passes: the wait is cancelled and will
\* resume with TimeoutError; its handler stays in the table until then
TimerFire(w) ==
    /\ TimerArmed(w)
    /\ waits[w].pc = "wait"
    /\ waits' = [waits EXCEPT ![w].pc = "expired"]
    /\ UNCHANGED <<websocket, _connected, _message_handlers, listener, link,
                   wlast>>
    /\ UNCHANGED <<rvars, xvars>>

\* _wait_for_response resumed: it returns the data the handler was given,
\* or None after TimeoutError; its finally deletes whatever handler is
\* stored under the key; then the operation builds what it returns
WaitResume(w) ==
    /\ waits[w].pc \in {"set", "expired"}
    /\ UNCHANGED xvars
    /\ UNCHANGED <<websocket, _connected, listener, link>>
    /\ UNCHANGED <<agents, tasks, api_adapter, entity_adapter, max_agents, next_agent, calls>>
    /\ _message_handlers' =
          IF waits[w].key \in DOMAIN _message_handlers
          THEN Del(_message_handlers, waits[w].key) ELSE _message_handlers
    /\ LET got == waits[w].pc = "set"
           observed == IF got THEN "payload" ELSE "TimedOut"
       IN  IF waits[w].op = "execute_agent"
           THEN ExecuteReturns(w, IF got
                                  THEN PayloadResult(waits[w].key.id,
                                                     waits[w].data.success)
                                  ELSE TimeoutResult(waits[w].key.id),
                               observed)
           ELSE /\ EndWait(w, Did(waits[w].op, waits[w].key, observed,
                                  got /\ waits[w].data.success,
                                  IF ~got /\ waits[w].op = "get_agent_status"
                                  THEN "No response received" ELSE "", ""))
                /\ UNCHANGED <<task_results, events, elast, event_handlers, last>>

\* a dispatcher that calls the handler of the first slot whatever the key
HandlerOf_FirstSlot(k) == CHOOSE w \in Calls : \A v \in Calls : w <= v

\* the handler _handle_message calls: self._message_handlers[task_id], the
\* closure of the wait that stored it
HandlerOf(k) == _message_handlers[k]

\* _handle_message without the membership test: an unmatched task_result
\* raises KeyError and ends the listener
Matched_Unchecked(k) == TRUE

\* the test of _handle_message: task_id in self._message_handlers
Matched(k) == k \in DOMAIN _message_handlers

\* the listener reads the next envelope (one the remote end sent before the
\* connection closed) and _handle_message handles it: a
\* task_result whose task_id has a handler calls the handler and deletes it,
\* connection_status sets _connected, a text that is no object raises and
\* ends the listener, anything else is dropped; a text that is not JSON
\* does not reach _handle_message: the listener logs the JSONDecodeError
\* and reads on
_handle_message(env) ==
    /\ listener = "running"
    /\ UNCHANGED <<websocket, link>>
    /\ UNCHANGED <<rvars, xvars>>
    /\ LET k == env.task_id
           handled(fault) ==
               Did("_handle_message", k, env.type, env.flag, "", fault)
       IN  CASE env.type = "task_result" ->
                  IF ~Matched(k)
                  THEN /\ wlast' = handled("")
                       /\ UNCHANGED <<_connected, _message_handlers,
                                      listener, waits>>
                  ELSE IF k \notin DOMAIN _message_handlers
                  THEN /\ wlast' = handled("KeyError")
                       /\ listener' = "faulted"
                       /\ UNCHANGED <<_connected, _message_handlers, waits>>
                  ELSE LET w == HandlerOf(k) IN
                       /\ waits' = [waits EXCEPT
                                      ![w].data = Payload(env.flag),
                                      ![w].pc = IF @ = "wait" THEN "set" ELSE @]
                       /\ _message_handlers' = Del(_message_handlers, k)
                       /\ wlast' = handled("")
                       /\ UNCHANGED <<_connected, listener>>
             [] env.type = "status_update" ->
                  /\ wlast' = handled("")
                  /\ UNCHANGED <<_connected, _message_handlers, listener, waits>>
             [] env.type = "connection_status" ->
                  /\ _connected' = env.flag
                  /\ wlast' = handled("")
                  /\ UNCHANGED <<_message_handlers, listener, waits>>
             [] env.type = "non_object" ->
                  /\ listener' = "faulted"
                  /\ wlast' = handled("AttributeError")
                  /\ UNCHANGED <<_connected, _message_handlers, waits>>
             [] OTHER ->
                  /\ wlast' = handled("")
                  /\ UNCHANGED <<_connected, _message_handlers, listener, waits>>

\* the loop of _message_listener ends once the closed connection has no
\* envelope left: silently after a normal close, through the
\* ConnectionClosed branch, which clears _connected, after an abnormal one
_message_listener ==
    /\ listener = "running"
    /\ link \in {"closed", "lost"}
    /\ listener' = IF link = "lost" THEN "closed" ELSE "ended"
    /\ _connected' = IF link = "lost" THEN FALSE ELSE _connected
    /\ UNCHANGED <<websocket, _message_handlers, link, waits, wlast>>
    /\ UNCHANGED <<rvars, xvars>>

(* ---------------------------- maintenance ----------------------------- *)
\* older_than_hours * 3600: the seconds of an hour
SecondsPerHour == 3600

\* time passes: the clock moves on by half an hour
Tick ==
    /\ now < MaxHours * SecondsPerHour
    /\ now' = now + SecondsPerHour \div 2
    /\ UNCHANGED <<mlast, results, sent, clast, spawn_loop>>
    /\ UNCHANGED <<rvars, dvars>>

\* the test of cleanup_completed_tasks with <= for <
Old_Inclusive(result, cutoff_time) == result.completed_at <= cutoff_time

\* the test of cleanup_completed_tasks: the result has a completion time
\* (every stored result has one) and it is before the cutoff
Old(result, cutoff_time) ==
    "completed_at" \in DOMAIN result /\ result.completed_at < cutoff_time

\* cleanup_completed_tasks(older_than_hours): the results older than the
\* cutoff are deleted and counted; the coroutine has no await
cleanup_completed_tasks(older_than_hours) ==
    LET cutoff_time == now - older_than_hours * SecondsPerHour
        old_tasks == {t \in DOMAIN task_results :
                         Old(task_results[t], cutoff_time)}
    IN  /\ task_results' = [t \in (DOMAIN task_results) \ old_tasks |->
                               task_results[t]]
        /\ mlast' = Maintained("cleanup_completed_tasks", older_than_hours,
                               Cardinality(old_tasks), NoSnapshot)
        /\ UNCHANGED <<agents, tasks, api_adapter, entity_adapter,
                       max_agents, next_agent, events, calls, last,
                       event_handlers, elast>>
        /\ UNCHANGED <<dvars, now, results, sent, clast, spawn_loop>>

\* "completed_tasks" counting every stored result
completed_tasks_All == Cardinality(DOMAIN task_results)

\* "completed_tasks" of get_system_status: the stored results with success
completed_tasks ==
    Cardinality({t \in DOMAIN task_results : task_results[t].success})

\* "failed_tasks" of get_system_status: the stored results without
failed_tasks ==
    Cardinality({t \in DOMAIN task_results : ~task_results[t].success})

\* get_system_status(): the counts of the maps and the connectivity the
\* adapter reports (connected is what is_connected() of the injected
\* adapter answers; without adapter the field is False)
get_system_status(connected) ==
    /\ mlast' = Maintained("get_system_status", 0, 0,
                    Snapshot(Cardinality(DOMAIN agents),
                             Cardinality(get_idle_agents),
                             Cardinality(DOMAIN tasks),
                             completed_tasks, failed_tasks,
                             api_adapter # None /\ connected))
    /\ UNCHANGED <<rvars, dvars, now, results, sent, clast, spawn_loop>>

\* self.min_idle_agents: the default of system.min_idle_agents
min_idle_agents == 2

\* AgentAPIService.startup() with system.auto_spawn set: the task of
\* _auto_spawn_loop is started (the initialize() of the HTTP adapter and
\* the cleanup loop, started as well, are left out)
startup ==
    /\ spawn_loop = "none"
    /\ spawn_loop' = "check"
    /\ UNCHANGED <<rvars, dvars, now, mlast, results, sent, clast>>

\* one round of _auto_spawn_loop up to its sleep:
\* `await self.agent_manager.auto_spawn_check()` looks up an attribute
\* AgentManagerCore does not define, the AttributeError is caught and
\* logged by the loop, which then sleeps a minute; no agent is created
\* (removed, here the number of agents spawned, is 0)
_auto_spawn_loop ==
    /\ spawn_loop = "check"
    /\ spawn_loop' = "sleep"
    /\ mlast' = Maintained("_auto_spawn_loop", 0, 0, NoSnapshot)
    /\ UNCHANGED <<rvars, dvars, now, results, sent, clast>>

\* asyncio.sleep(60) of _auto_spawn_loop returns: the loop goes round again
SpawnSleepDone ==
    /\ spawn_loop = "sleep"
    /\ spawn_loop' = "check"
    /\ UNCHANGED <<rvars, dvars, now, mlast, results, sent, clast>>

(* ------------------------------ the client ---------------------------- *)
\* AgentVMClient(timeout=600): self.timeout
DefaultTimeout == 600

\* the path run_agent posts when its repo_path is None or empty
DefaultRepoPath == "/mnt/host-projects/current"

\* the repo_path callers of run_agent pass: None (the default) or a path
RepoPaths == {None, "/test/repo"}

\* what the backend answers to POST /agent/run: the JSON object of a run
\* that succeeded or failed, or a status that response.raise_for_status()
\* turns into an HTTPError
Responses ==
    [status : {200}, success : BOOLEAN, returncode : {0, 1},
     error : {None, "Critical error occurred"}]
        \cup {[status |-> 500, success |-> FALSE, returncode |-> 0,
               error |-> None]}

\* the payload of run_agent: agent.value, the repo_path or the default
\* path, the timeout or self.timeout (callers here pass no timeout)
RequestPayload(agent, repo_path) ==
    [agent |-> agent,
     repo_path |-> IF repo_path = None THEN DefaultRepoPath ELSE repo_path,
     timeout |-> DefaultTimeout]

\* a raise_for_status that never raises
raise_for_status_Never(result) == ""

\* AgentResult.raise_for_status(): AgentExecutionError when the result
\* failed, else nothing ("")
raise_for_status(result) ==
    IF ~result.success THEN "AgentExecutionError" ELSE ""

\* run_agent from the response on: an HTTP error status raises; else the
\* AgentResult is built from the JSON object and, with raise_on_error, its
\* raise_for_status() is called; then the result is returned
RunAgent(op, repo_path, raise_on_error, response) ==
    IF response.status # 200
    THEN Ran(op, repo_path, raise_on_error, response, "HTTPError",
             AgentResult(FALSE, 0, None))
    ELSE LET result == AgentResult(response.success, response.returncode,
                                   response.error)
         IN  Ran(op, repo_path, raise_on_error, response,
                 IF raise_on_error THEN raise_for_status(result) ELSE "",
                 result)

\* client.run_agent(agent, prompt, repo_path, raise_on_error) answered by
\* response
run_agent(agent, repo_path, raise_on_error, response) ==
    /\ sent' = RequestPayload(agent, repo_path)
    /\ clast' = RunAgent("run_agent", repo_path, raise_on_error, response)
    /\ UNCHANGED <<results, now, mlast, spawn_loop>>
    /\ UNCHANGED <<rvars, dvars>>

\* a run that appends whether run_agent returned or raised
Appends_Always(out) == TRUE

\* session.run reaches self.results.append(result) when run_agent returned
Appends(out) == out.raised = ""

\* AgentSession.__exit__ returns False: the exception is not suppressed
__exit__(raised) == FALSE

\* session.run(prompt, raise_on_error) inside `with AgentSession(...)`, the
\* session built with the default agent and no repo_path: run_agent is
\* called, its result appended and returned; a fault of run_agent leaves
\* run and, __exit__ not suppressing it, the with statement
run(raise_on_error, response) ==
    /\ sent' = RequestPayload("aider", None)
    /\ LET out == RunAgent("run", None, raise_on_error, response)
       IN  /\ Appends(out) => Len(results) < MaxRuns
           /\ results' = IF Appends(out) THEN Append(results, out.result)
                         ELSE results
           /\ clast' = IF out.raised # "" /\ __exit__(out.raised)
                       THEN [out EXCEPT !.raised = ""] ELSE out
    /\ UNCHANGED <<now, mlast, spawn_loop>>
    /\ UNCHANGED <<rvars, dvars>>

(* --------------------------- the registry ----------------------------- *)
Next ==
    \/ \E api \in {None, "api"}, ent \in {None, "entity"} : set_adapters(api, ent)
    \/ \E c \in Calls, ty \in RequestTypes : CreateCall(c, ty)
    \/ \E c \in Calls, ok \in BOOLEAN : CreateEntityDone(c, ok)
    \/ \E c \in Calls, a \in AgentIds : DestroyCall(c, a)
    \/ \E c \in Calls, o \in {"true", "false", "raise"} : DestroyCancelDone(c, o)
    \/ \E c \in Calls, ok \in BOOLEAN : DestroyEntityDone(c, ok)
    \/ \E c \in Calls, a \in AgentIds, t \in TaskIds \cup {NoId} : AssignCall(c, a, t)
    \/ \E c \in Calls, o \in {"success", "failure", "raise"} : AssignExecDone(c, o)

Spec == Init /\ [][Next]_vars

(* ------------------------- the duplex adapter ------------------------- *)
\* the adapter as constructed, next to a registry that is left alone
DuplexInit == Init /\ max_agents = MaxAgentsCfg

DuplexNext ==
    \/ initialize
    \/ cleanup
    \/ \E how \in {"closed", "lost"} : RemoteClose(how)
    \/ \E env \in Envelopes : _handle_message(env)
    \/ _message_listener
    \/ \E w \in Calls, t \in KeyIds \cup {NoId} : execute_agent(w, t)
    \/ \E w \in Calls, t \in KeyIds : get_agent_status(w, t)
    \/ \E w \in Calls, t \in KeyIds : cancel_task(w, t)
    \/ \E w \in Calls : SendDone(w)
    \/ \E w \in Calls : TimerFire(w)
    \/ \E w \in Calls : WaitResume(w)

DuplexSpec == DuplexInit /\ [][DuplexNext]_vars

\* the event loop runs the timeout callback of asyncio.wait_for once the
\* deadline has passed, and resumes every coroutine whose Event was set or
\* whose wait was cancelled
DuplexLive ==
    /\ DuplexSpec
    /\ \A w \in Calls : WF_vars(TimerFire(w)) /\ WF_vars(WaitResume(w))

(* ---------------- the registry over the duplex adapter ---------------- *)
\* the registry with a WebSocketAPIAdapter injected by set_adapters and no
\* entity adapter: agents are created, tasks assigned through the adapter,
\* the remote end answers execute_agent, closes, or stays silent
AssignDuplexNext ==
    \/ set_adapters("ws", None)
    \/ \E c \in Calls, ty \in RequestTypes : CreateCall(c, ty)
    \/ initialize
    \/ \E how \in {"closed", "lost"} : RemoteClose(how)
    \/ \E env \in Replies : _handle_message(env)
    \/ _message_listener
    \/ \E w \in Calls, a \in AgentIds, timeout \in TaskTimeouts :
          AssignExecute(w, a, timeout)
    \/ \E w \in Calls : SendDone(w)
    \/ \E w \in Calls : TimerFire(w)
    \/ \E w \in Calls : WaitResume(w)

AssignDuplexSpec == Init /\ [][AssignDuplexNext]_vars

(* ---------------------------- the dispatcher -------------------------- *)
\* the connected adapter running its three operations while the remote end
\* sends envelopes of every kind, well-formed or not
DispatchNext ==
    \/ initialize
    \/ \E env \in Inbound : _handle_message(env)
    \/ \E w \in Calls, t \in KeyIds : execute_agent(w, t)
    \/ \E w \in Calls, t \in KeyIds : get_agent_status(w, t)
    \/ \E w \in Calls, t \in KeyIds : cancel_task(w, t)
    \/ \E w \in Calls : SendDone(w)
    \/ \E w \in Calls : TimerFire(w)
    \/ \E w \in Calls : WaitResume(w)

DispatchSpec == DuplexInit /\ [][DispatchNext]_vars

(* ------------------- the registry and its handlers -------------------- *)
\* a registry of one agent at a time, with an API adapter and no entity
\* adapter: callers register and unregister handlers while an agent is
\* created and destroyed and tasks are assigned to it
BusInit == Init /\ max_agents = 1

BusNext ==
    \/ set_adapters("api", None)
    \/ \E n \in EventNames, h \in Handlers : on(n, h)
    \/ \E n \in EventNames, h \in Handlers \cup {NoHandler} : off(n, h)
    \/ \E c \in Calls : CreateCall(c, "aider")
    \/ \E c \in Calls, a \in AgentIds : DestroyCall(c, a)
    \/ \E c \in Calls : DestroyCancelDone(c, "true")
    \/ \E c \in Calls, a \in AgentIds : AssignCall(c, a, NoId)
    \/ \E c \in Calls, o \in {"success", "raise"} : AssignExecDone(c, o)

BusSpec == BusInit /\ [][BusNext]_vars

(* -------------- the registry and its one-shot handlers ---------------- *)
\* the registry of one agent at a time whose callers register handlers that
\* unsubscribe themselves when they are called, next to plain ones, while
\* an agent is created and destroyed
ReentryNext ==
    \/ \E n \in EventNames, h \in ReentrantHandlers : on(n, h)
    \/ \E n \in EventNames, h \in ReentrantHandlers : off(n, h)
    \/ \E c \in Calls : CreateCall(c, "aider")
    \/ \E c \in Calls, a \in AgentIds : DestroyCall(c, a)

ReentrySpec == BusInit /\ [][ReentryNext]_vars

(* -------------------- the registry and its upkeep --------------------- *)
\* the registry with an API adapter, as time passes: agents are created,
\* tasks assigned and answered, old results cleaned up and the status read
MaintNext ==
    \/ set_adapters("api", None)
    \/ \E c \in Calls : CreateCall(c, "aider")
    \/ \E c \in Calls, a \in AgentIds : AssignCall(c, a, NoId)
    \/ \E c \in Calls, o \in {"success", "failure", "raise"} : AssignExecDone(c, o)
    \/ Tick
    \/ \E h \in CleanupHours : cleanup_completed_tasks(h)
    \/ \E connected \in BOOLEAN : get_system_status(connected)

MaintSpec == DuplexInit /\ [][MaintNext]_vars

(* ------------------- the registry and the spawn loop ------------------ *)
\* the registry of the service with auto_spawn enabled: callers create and
\* destroy agents and assign tasks while the auto-spawn loop goes round
SpawnNext ==
    \/ set_adapters("api", None)
    \/ \E c \in Calls : CreateCall(c, "aider")
    \/ \E c \in Calls, a \in AgentIds : DestroyCall(c, a)
    \/ \E c \in Calls : DestroyCancelDone(c, "true")
    \/ \E c \in Calls, a \in AgentIds : AssignCall(c, a, NoId)
    \/ \E c \in Calls : AssignExecDone(c, "success")
    \/ startup
    \/ _auto_spawn_loop
    \/ SpawnSleepDone

\* the service starts, and the event loop runs the task of the spawn loop
\* whenever it can run: at its start and after each sleep
SpawnSpec ==
    /\ DuplexInit /\ [][SpawnNext]_vars
    /\ WF_vars(startup) /\ WF_vars(_auto_spawn_loop) /\ WF_vars(SpawnSleepDone)

(* ----------------------------- the client ----------------------------- *)
\* a client and a session of it, each call answered by the backend
ClientNext ==
    \/ \E agent \in {"aider", "claude"}, repo_path \in RepoPaths,
          raise_on_error \in BOOLEAN, response \in Responses :
          run_agent(agent, repo_path, raise_on_error, response)
    \/ \E raise_on_error \in BOOLEAN, response \in Responses :
          run(raise_on_error, response)

ClientSpec == DuplexInit /\ [][ClientNext]_vars

(* ------------------------------ steps --------------------------------- *)
\* a call of op starts and ends in this step, without suspending
Immediate(op) == calls' = calls /\ last' # last /\ last'.op = op

\* a call of op starts in slot c in this step and suspends at its first await
Suspended(op, c) ==
    calls[c].pc = "idle" /\ calls'[c].pc # "idle" /\ calls'[c].op = op

\* the suspended call of op in slot c returns or raises in this step
Completed(op, c) ==
    calls[c].op = op /\ calls[c].pc # "idle" /\ calls'[c].pc = "idle"

\* the configured types as a set
ConfiguredTypes == {get_agent_types[i] : i \in 1..Len(get_agent_types)}

\* the number of registered agents
LiveCount == Cardinality(DOMAIN agents)

(* ------------------------------ claims -------------------------------- *)
\* C1: in every reachable state, whatever calls are in flight or suspended
\* inside an adapter, the number of registered agents is at most max_agents.
C1_CapacityNeverExceeded == Cardinality(DOMAIN agents) <= max_agents

\* C1 witness: the registry is full while a create_agent is suspended inside
\* the entity adapter, and a further create_agent was refused.
C1_Witness ==
    /\ Cardinality(DOMAIN agents) = max_agents
    /\ \E c \in Calls : calls[c].op = "create" /\ calls[c].pc = "entity"
    /\ last.op = "create" /\ last.fault = "CapacityExceeded"

\* C2: a create_agent with a configured type raises CapacityExceeded exactly
\* when the live count is >= max_agents at the call; the refused call leaves
\* the agent map and the event stream as they were; a call made below
\* capacity (in particular after a destroy_agent removed an agent of a full
\* registry) registers a new agent, and without an entity collaborator returns
\* its id and emits agent_created for it in the same step.
C2_CreateStep ==
    /\ (Immediate("create") /\ last'.type \in ConfiguredTypes) =>
          IF LiveCount >= max_agents
          THEN /\ last'.fault = "CapacityExceeded"
               /\ agents' = agents /\ events' = events
          ELSE /\ last'.fault = "" /\ last'.ret = "id"
               /\ last'.agent \notin DOMAIN agents
               /\ DOMAIN agents' = DOMAIN agents \cup {last'.agent}
               /\ events' = Append(events,
                      [name |-> "agent_created", id |-> last'.agent])
    /\ \A c \in Calls :
          (Suspended("create", c) /\ calls'[c].type \in ConfiguredTypes) =>
             /\ LiveCount < max_agents
             /\ calls'[c].agent \notin DOMAIN agents
             /\ DOMAIN agents' = DOMAIN agents \cup {calls'[c].agent}
    /\ \A c \in Calls :
          Completed("create", c) => last'.fault # "CapacityExceeded"

C2_CapacityExceededExactlyWhenFull == [][C2_CreateStep]_vars

\* C2 witness: max_agents = 1; A was created and destroyed, B was registered
\* in its place, and the create_agent after that was refused again.
C2_Witness ==
    /\ max_agents = 1
    /\ Len(events) >= 2
    /\ events[1] = [name |-> "agent_created", id |-> 1]
    /\ events[2] = [name |-> "agent_destroyed", id |-> 1]
    /\ DOMAIN agents = {2}
    /\ last.op = "create" /\ last.fault = "CapacityExceeded"

\* C3 as stated: every create_agent with a type that is not configured raises
\* UnknownAgentType, leaves the agent map unchanged and emits no event.
C3_UnknownTypeStep ==
    /\ (Immediate("create") /\ last'.type \notin ConfiguredTypes) =>
          /\ last'.fault = "UnknownAgentType"
          /\ agents' = agents /\ events' = events
    /\ \A c \in Calls :
          Suspended("create", c) => calls'[c].type \in ConfiguredTypes

C3_Original == [][C3_UnknownTypeStep]_vars

\* C3 amended: a create_agent with a type that is not configured raises
\* UnknownAgentType when the live count is below max_agents and
\* CapacityExceeded when it is not (the capacity check comes first); in both
\* cases the agent map is unchanged and no event is emitted.
C3_AmendedStep ==
    /\ (Immediate("create") /\ last'.type \notin ConfiguredTypes) =>
          /\ last'.fault = IF LiveCount >= max_agents
                           THEN "CapacityExceeded" ELSE "UnknownAgentType"
          /\ agents' = agents /\ events' = events
    /\ \A c \in Calls :
          Suspended("create", c) => calls'[c].type \in ConfiguredTypes

C3_UnknownTypeBelowCapacity == [][C3_AmendedStep]_vars

\* C3 witness: with an agent registered and room for another, a create_agent
\* of an unconfigured type was refused with UnknownAgentType.
C3_Witness ==
    /\ last.op = "create" /\ last.type \notin ConfiguredTypes
    /\ last.fault = "UnknownAgentType"
    /\ agents # << >> /\ LiveCount < max_agents

\* C4: a destroy_agent of an id that is not registered returns False without
\* suspending; the agent map, the task map, the result map and the event
\* stream are unchanged and no cancel of the adapter is invoked.
C4_DestroyUnknownStep ==
    /\ (Immediate("destroy") /\ last'.agent \notin DOMAIN agents) =>
          /\ last'.ret = "false" /\ last'.fault = ""
          /\ last'.attempted = {}
          /\ agents' = agents /\ tasks' = tasks
          /\ task_results' = task_results /\ events' = events
    /\ \A c \in Calls :
          Suspended("destroy", c) => calls'[c].agent \in DOMAIN agents

C4_DestroyUnknownIsNoOp == [][C4_DestroyUnknownStep]_vars

\* C4 witness: destroy_agent returned False for an id that is no longer
\* registered, with an adapter injected and a TaskRequest of that id on file.
C4_Witness ==
    /\ last.op = "destroy" /\ last.ret = "false"
    /\ last.agent \notin DOMAIN agents
    /\ api_adapter # None
    /\ \E t \in DOMAIN tasks : tasks[t].agent_id = last.agent

\* destroy_agent(a) ended in this step as C5 says a destroy of a registered
\* id does: it returned True, exactly the descriptor of a left the agent map
\* (get_agent finds it no more), agent_destroyed was emitted once for it, and
\* the task map and the result map are as they were.
DestroyedInStep(a) ==
    /\ last'.ret = "true" /\ last'.fault = ""
    /\ a \in DOMAIN agents
    /\ DOMAIN agents' = DOMAIN agents \ {a}
    /\ get_agent(a)' = NoId
    /\ events' = Append(events, [name |-> "agent_destroyed", id |-> a])
    /\ tasks' = tasks /\ task_results' = task_results

\* C5: every destroy_agent of an id that is registered at the call returns
\* True, removes exactly that descriptor, emits agent_destroyed once for it
\* and leaves the TaskRequests and TaskResults of the agent in place (a call
\* the entity collaborator itself fails is left aside).
C5_DestroyRegisteredStep ==
    /\ \A a \in AgentIds :
          (Immediate("destroy") /\ last'.agent = a /\ a \in DOMAIN agents) =>
             DestroyedInStep(a)
    /\ \A c \in Calls, a \in AgentIds :
          (Completed("destroy", c) /\ calls[c].agent = a
             /\ last'.fault # "EntityFault") =>
             DestroyedInStep(a)

C5_DestroyRegisteredRemoves == [][C5_DestroyRegisteredStep]_vars

\* C6: a destroy_agent during which a cancel of the adapter failed (returned
\* False or raised) still attempts every task of the agent, still removes the
\* descriptor, still emits agent_destroyed and still returns True (a call the
\* entity collaborator itself fails is left aside).
C6_CancelFailureStep ==
    \A c \in Calls :
       /\ (calls[c].op = "destroy" /\ calls[c].pc = "cancel"
             /\ calls'[c].pc = "cancel") =>
             calls'[c].attempted \cup calls'[c].remaining
                = calls[c].attempted \cup calls[c].remaining
       /\ (Completed("destroy", c) /\ last'.cancel_failed
             /\ last'.fault # "EntityFault") =>
             /\ calls[c].pc = "cancel" => calls[c].remaining = {}
             /\ last'.ret = "true" /\ last'.fault = ""
             /\ calls[c].agent \notin DOMAIN agents'
             /\ events' = Append(events,
                    [name |-> "agent_destroyed", id |-> calls[c].agent])

C6_CancelFailureDoesNotBlockRemoval == [][C6_CancelFailureStep]_vars

\* C7: in every reachable state get_idle_agents is exactly the set of the
\* registered agents all of whose TaskRequests have a stored TaskResult.
C7_IdleIffNoOpenTask ==
    get_idle_agents =
       {a \in DOMAIN agents :
           \A t \in DOMAIN tasks :
              tasks[t].agent_id = a => t \in DOMAIN task_results}

\* C8: get_idle_agents holds an agent in the state in which its create_agent
\* returns (as long as no task was assigned to it and it was not destroyed
\* while the call was suspended), and holds no agent that owns a TaskRequest
\* on file whose assign_task is suspended in the adapter or whose TaskResult
\* is not stored yet.
C8_IdleStep ==
    /\ (Immediate("create") /\ last'.ret = "id") =>
          last'.agent \in get_idle_agents'
    /\ \A c \in Calls :
          (Completed("create", c) /\ last'.ret = "id"
             /\ last'.agent \in DOMAIN agents'
             /\ \A t \in DOMAIN tasks' : tasks'[t].agent_id # last'.agent) =>
             last'.agent \in get_idle_agents'
    /\ \A c \in Calls :
          Suspended("assign", c) => calls'[c].agent \notin get_idle_agents'
    /\ \A c \in Calls :
          (calls'[c].op = "assign" /\ calls'[c].pc = "exec"
             /\ tasks'[calls'[c].tid].agent_id = calls'[c].agent) =>
             calls'[c].agent \notin get_idle_agents'
    /\ \A t \in (DOMAIN tasks') \ (DOMAIN task_results') :
          tasks'[t].agent_id \notin get_idle_agents'

AssignRefusedFrame ==
    /\ last'.ret = "none"
    /\ agents' = agents /\ tasks' = tasks
    /\ task_results' = task_results /\ events' = events

\* C9 as stated: assign_task raises UnknownAgent when the id is not
\* registered and AdapterUnavailable when no adapter is configured, in both
\* cases before a TaskRequest is created, an event emitted or the adapter
\* called.
C9_OriginalStep ==
    /\ Immediate("assign") =>
          /\ last'.agent \notin DOMAIN agents => last'.fault = "UnknownAgent"
          /\ api_adapter = None => last'.fault = "AdapterUnavailable"
          /\ AssignRefusedFrame
    /\ \A c \in Calls :
          Suspended("assign", c) =>
             calls'[c].agent \in DOMAIN agents /\ api_adapter # None

C9_Original == [][C9_OriginalStep]_vars

\* C9 amended: assign_task raises UnknownAgent when the id is not registered
\* (with or without an adapter: this check comes first) and
\* AdapterUnavailable when the id is registered and no adapter is configured,
\* in both cases before a TaskRequest is created, an event emitted or the
\* adapter called.
C9_AmendedStep ==
    /\ Immediate("assign") =>
          /\ last'.agent \notin DOMAIN agents => last'.fault = "UnknownAgent"
          /\ (last'.agent \in DOMAIN agents /\ api_adapter = None) =>
                last'.fault = "AdapterUnavailable"
          /\ AssignRefusedFrame
    /\ \A c \in Calls :
          Suspended("assign", c) =>
             calls'[c].agent \in DOMAIN agents /\ api_adapter # None

C9_ValidationFaultsBeforeRequest == [][C9_AmendedStep]_vars

\* C9 witness: assign_task on a registered agent was refused with
\* AdapterUnavailable, and no TaskRequest is on file.
C9_Witness ==
    /\ last.op = "assign" /\ last.fault = "AdapterUnavailable"
    /\ last.agent \in DOMAIN agents
    /\ tasks = << >>

\* C10: an assign_task on a registered agent with an adapter configured
\* creates its TaskRequest and suspends in the adapter; whatever the adapter
\* does then (returns a successful or a failed result, or raises), the call
\* raises nothing and returns the task id, stores a TaskResult under that id
\* and under no other, and the stored result has success = False when the
\* adapter raised.
C10_AssignStep ==
    /\ Immediate("assign") =>
          last'.agent \notin DOMAIN agents \/ api_adapter = None
    /\ \A c \in Calls :
          Suspended("assign", c) =>
             /\ calls'[c].pc = "exec" /\ last' = last
             /\ calls'[c].tid \in DOMAIN tasks'
             /\ tasks'[calls'[c].tid].agent_id = calls'[c].agent
    /\ \A c \in Calls :
          Completed("assign", c) =>
             /\ last'.fault = "" /\ last'.ret = "id"
             /\ last'.tid = calls[c].tid
             /\ DOMAIN task_results' = DOMAIN task_results \cup {calls[c].tid}
             /\ \A t \in (DOMAIN task_results) \ {calls[c].tid} :
                   task_results'[t] = task_results[t]
             /\ last'.raised => ~task_results'[calls[c].tid].success

C10_AdapterFaultsBecomeFailedResults == [][C10_AssignStep]_vars

\* C10 witness: the adapter raised, assign_task returned the task id and the
\* result stored under it is a failure.
C10_Witness ==
    /\ last.op = "assign" /\ last.raised /\ last.ret = "id"
    /\ last.tid \in DOMAIN task_results
    /\ ~task_results[last.tid].success
(* ------------------------------- C11 ---------------------------------- *)
\* C11: a TaskResult, once stored, is never overwritten: whatever calls of
\* assign_task run and interleave, and whatever optional arguments they are
\* given, no step replaces the result stored under a task id by a different
\* one.
C11_StoredResultNeverReplaced ==
    [][\A t \in DOMAIN task_results :
          t \in DOMAIN task_results' => task_results'[t] = task_results[t]]_vars

(* ------------------------------- C12 ---------------------------------- *)
\* the operation in slot w comes back from a send that went out, which is
\* where its wait is registered
Registers(w) ==
    waits[w].pc = "send" /\ waits'[w] # waits[w] /\ link = "open"

\* C12: registering a wait for a correlation key that already has a live
\* pending entry fails with DuplicateKey and leaves the existing entry and
\* its waiter untouched, so that at no instant two pending waiters share
\* one correlation key.
C12_DuplicateKeyRefused ==
    [][/\ \A w \in Calls :
            Registers(w) /\ waits[w].key \in DOMAIN _message_handlers
            => /\ _message_handlers' = _message_handlers
               /\ \A v \in Calls \ {w} : waits'[v] = waits[v]
               /\ waits'[w].pc = "idle"
               /\ wlast'.fault = "DuplicateKey"
       /\ \A v, w \in Calls :
            v # w /\ waits'[v].pc = "wait" /\ waits'[w].pc = "wait"
            => waits'[v].key # waits'[w].key]_vars

\* every stored handler belongs to an operation that waits under that key
HandlersBelongToWaits ==
    \A k \in DOMAIN _message_handlers :
        /\ waits[_message_handlers[k]].key = k
        /\ waits[_message_handlers[k]].pc \in {"wait", "expired"}

(* ------------------------------- C13 ---------------------------------- *)
\* the wait of slot w returns to its operation in this step
Resumes(w) == waits[w].pc \in {"set", "expired"} /\ waits'[w].pc = "idle"

\* the handler stored under the key of slot w is the one slot w registered
OwnEntry(w) ==
    /\ waits[w].key \in DOMAIN _message_handlers
    /\ _message_handlers[waits[w].key] = w

\* C13: every registered wait observes exactly one outcome, the resolved
\* payload or TimedOut, and its entry is removed by exactly one of the two
\* paths: either the dispatcher delivered and removed it, and the wait then
\* finds no entry under its key, or the timeout path removes the wait's own
\* entry (a delivery that came between the deadline and the resumption
\* counts as the dispatcher's removal).
C13_OneOutcomeOneRemoval ==
    [][\A w \in Calls :
          Resumes(w)
          => \/ /\ wlast'.observed = "payload"
                /\ waits[w].data.set
                /\ waits[w].key \notin DOMAIN _message_handlers
             \/ /\ wlast'.observed = "TimedOut"
                /\ ~waits[w].data.set
                /\ OwnEntry(w)
                /\ waits[w].key \notin DOMAIN _message_handlers'
             \/ /\ wlast'.observed = "TimedOut"
                /\ waits[w].data.set
                /\ waits[w].key \notin DOMAIN _message_handlers]_vars

(* ------------------------------- C14 ---------------------------------- *)
\* the listener hands _handle_message a task_result for key k in this step
Resolves(k) ==
    /\ wlast'.op = "_handle_message" /\ wlast'.key = k
    /\ _handle_message([type |-> "task_result", task_id |-> k,
                        flag |-> wlast'.success])

\* C14: a task_result whose correlation key has no pending entry (it comes
\* before the registration, after the expiry, or a second time) is dropped:
\* the step changes no entry, unblocks no waiter and raises no fault in the
\* dispatcher, which keeps running.
C14_UnmatchedResolutionDropped ==
    [][\A k \in Keys :
          Resolves(k) /\ k \notin DOMAIN _message_handlers
          => /\ _message_handlers' = _message_handlers
             /\ waits' = waits
             /\ listener' = listener
             /\ _connected' = _connected
             /\ wlast'.fault = ""]_vars

\* a task_result for a key without entry was just dropped (no wait holds a
\* payload that was not yet picked up) while another wait stays pending and
\* the listener keeps running
C14_Witness ==
    /\ wlast.op = "_handle_message" /\ wlast.observed = "task_result"
    /\ wlast.fault = ""
    /\ wlast.key \notin DOMAIN _message_handlers
    /\ \A w \in Calls : ~waits[w].data.set
    /\ \E w \in Calls : waits[w].pc = "wait" /\ waits[w].key # wlast.key
    /\ listener = "running"

(* ------------------------------- C15 ---------------------------------- *)
\* C15: when the dispatcher resolves a key that has a pending entry, the
\* payload is handed to the wait that registered that entry and to no other
\* one (a wait that is still suspended is unblocked by it), and right after
\* the step no entry for the key remains; the other entries stay.
C15_ResolutionReachesItsWaiter ==
    [][\A k \in Keys :
          Resolves(k) /\ k \in DOMAIN _message_handlers
          => /\ waits'[_message_handlers[k]].data.set
             /\ waits'[_message_handlers[k]].data.success = wlast'.success
             /\ waits[_message_handlers[k]].pc = "wait"
                   => waits'[_message_handlers[k]].pc = "set"
             /\ \A v \in Calls \ {_message_handlers[k]} : waits'[v] = waits[v]
             /\ DOMAIN _message_handlers' = (DOMAIN _message_handlers) \ {k}
             /\ \A j \in DOMAIN _message_handlers' :
                   _message_handlers'[j] = _message_handlers[j]
             /\ listener' = listener]_vars

\* a task_result was just handed to the wait registered under its key: that
\* wait holds the payload, its entry is gone, and a wait under another key
\* is still pending with its entry
C15_Witness ==
    /\ wlast.op = "_handle_message" /\ wlast.observed = "task_result"
    /\ \E w \in Calls :
          /\ waits[w].pc = "set" /\ waits[w].key = wlast.key
          /\ waits[w].data = [set |-> TRUE, success |-> wlast.success]
    /\ wlast.key \notin DOMAIN _message_handlers
    /\ \E v \in Calls :
          /\ waits[v].pc = "wait" /\ waits[v].key # wlast.key
          /\ waits[v].key \in DOMAIN _message_handlers

(* ------------------------------- C16 ---------------------------------- *)
\* C16: when the duplex connection closes, every wait that is pending at
\* that moment is unblocked by the close itself, with a connection-closed
\* outcome and not by its own deadline: in the step in which the listener
\* finds the connection closed, no wait that was suspended stays suspended.
C16_CloseUnblocksPendingWaits ==
    [][listener = "running" /\ listener' \in {"ended", "closed"}
       => \A w \in Calls : waits[w].pc = "wait" => waits'[w].pc # "wait"]_vars

(* ------------------------------- C17 ---------------------------------- *)
\* C17: no duplex wait hangs forever: every wait of execute_agent,
\* get_agent_status and cancel_task that was registered eventually returns
\* to its caller, whether or not the listener still runs and the connection
\* is still open.
C17_EveryWaitReturns ==
    \A w \in Calls : (waits[w].pc = "wait") ~> (waits[w].pc = "idle")

\* a wait returned by its deadline after the listener had stopped
C17_Witness ==
    /\ listener \in {"ended", "closed", "faulted"}
    /\ wlast.op \in {"execute_agent", "get_agent_status", "cancel_task"}
    /\ wlast.observed = "TimedOut"
    /\ \A w \in Calls : waits[w].pc = "idle"

(* ------------------------------- C18 ---------------------------------- *)
\* C18: once the duplex connection has closed or its listener has stopped,
\* for whatever reason (remote close, clean end of the message stream, a
\* fault in the dispatcher), is_connected() of the adapter returns false.
C18_StoppedMeansDisconnected ==
    listener \in {"ended", "closed", "faulted"} => ~_connected

(* ------------------------------- C19 ---------------------------------- *)
\* C19: when a task is assigned through the duplex adapter and no matching
\* task_result is delivered before the timeout, execute_agent returns (does
\* not raise) a TaskResult with success false and a timeout error, and
\* assign_task stores that failed result under the task's id and returns
\* the task id normally.
C19_TimeoutBecomesFailedResult ==
    [][\A w \in Calls :
          Resumes(w) /\ waits[w].pc = "expired" /\ waits[w].task # NoId
          => /\ wlast'.op = "execute_agent" /\ wlast'.fault = ""
             /\ wlast'.observed = "TimedOut"
             /\ waits[w].task \in DOMAIN task_results'
             /\ ~task_results'[waits[w].task].success
             /\ task_results'[waits[w].task].error
                   = "Timeout waiting for response"
             /\ last'.op = "assign" /\ last'.tid = waits[w].task
             /\ last'.ret = "id" /\ last'.fault = "" /\ ~last'.raised]_vars

\* an assignment whose wait timed out has returned its task id, and the
\* failed result is stored under that id
C19_Witness ==
    /\ last.op = "assign" /\ last.ret = "id" /\ ~last.raised
    /\ last.tid \in DOMAIN task_results
    /\ task_results[last.tid].id = NoId
    /\ ~task_results[last.tid].success
    /\ task_results[last.tid].error = "Timeout waiting for response"
    /\ wlast.op = "execute_agent" /\ wlast.observed = "TimedOut"
    /\ listener = "running" /\ link = "open"

(* ------------------------------- C20 ---------------------------------- *)
\* C20: in execute_agent, get_agent_status and cancel_task the correlation
\* entry is registered before the request is sent, so that a task_result
\* the dispatcher handles at any point after the send of an operation began
\* finds an entry under that operation's key and is not dropped as
\* unmatched.
C20_RegisteredBeforeSend ==
    [][\A k \in Keys :
          /\ Resolves(k)
          /\ \E w \in Calls : waits[w].pc = "send" /\ waits[w].key = k
          => k \in DOMAIN _message_handlers]_vars

(* ------------------------------- C21 ---------------------------------- *)
\* C21: any two duplex operations that are outstanding at the same time use
\* different correlation keys, and the execute_agent that assign_task issues
\* is keyed by the id of its own TaskRequest (so that concurrent assign_task
\* calls on one connection each receive the result of their own task).
C21_DistinctCorrelationKeys ==
    /\ \A w \in Calls :
          waits[w].pc # "idle" /\ waits[w].task # NoId
          => waits[w].key = [prefix |-> "", id |-> waits[w].task]
    /\ \A v, w \in Calls :
          v # w /\ waits[v].pc # "idle" /\ waits[w].pc # "idle"
          => waits[v].key # waits[w].key

(* ------------------------------- C22 ---------------------------------- *)
\* the names _emit_event is called with
EmittedNames == {"agent_created", "agent_destroyed", "task_completed",
                 "task_failed"}

\* _emit_event is called with name in this step
Emits(name) ==
    /\ Len(events') = Len(events) + 1
    /\ events'[Len(events')].name = name

\* on(n, h) is called in this step
Subscribes(n, h) ==
    /\ elast'.op = "on" /\ elast'.name = n /\ elast'.handler = h
    /\ on(n, h)

C23_HandlerFaultIsContained ==
    [][\A name \in EventNames :
          /\ Emits(name)
          /\ name \in DOMAIN event_handlers
          /\ \E i \in 1..Len(event_handlers[name]) :
                event_handlers[name][i] = "boom"
          => /\ ~elast'.escaped
             /\ Len(elast'.invoked) = Len(event_handlers[name])
             /\ \A i \in 1..Len(event_handlers[name]) :
                   elast'.invoked[i] = event_handlers[name][i]
             /\ last'.fault = "" /\ ~last'.raised
             /\ \A c \in Calls : calls'[c].pc = "idle" \/ calls'[c] = calls[c]
             /\ name = "agent_created"
                   => /\ last'.op = "create" /\ last'.ret = "id"
                      /\ last'.agent \in DOMAIN agents'
                      /\ events'[Len(events')].id = last'.agent
             /\ name = "agent_destroyed"
                   => /\ last'.op = "destroy" /\ last'.ret = "true"
                      /\ last'.agent \in DOMAIN agents
                      /\ last'.agent \notin DOMAIN agents'
             /\ name = "task_completed"
                   => /\ last'.op = "assign" /\ last'.ret = "id"
                      /\ last'.tid \in DOMAIN task_results']_vars

\* assign_task returned its task id and stored the result although the
\* first handler of task_completed raised, and the handler registered
\* behind it was invoked
C23_Witness ==
    /\ elast.op = "_emit_event" /\ elast.name = "task_completed"
    /\ elast.invoked = <<"boom", "f">> /\ ~elast.escaped
    /\ last.op = "assign" /\ last.ret = "id" /\ last.fault = ""
    /\ last.tid \in DOMAIN task_results

(* ------------------------------- C24 ---------------------------------- *)
\* off(n, h) is called in this step (h is NoHandler when none is named)
Unsubscribes(n, h) ==
    /\ elast'.op = "off" /\ elast'.name = n /\ elast'.handler = h
    /\ off(n, h)

\* handler h is in the list hs
Listed(hs, h) == \E i \in 1..Len(hs) : hs[i] = h

\* what C24 says of every off, whatever it says of the list of a name that
\* has h: the lists of the other names stay, no name is added or dropped, a
\* name without list and a handler that is not in the list change nothing,
\* and without a handler the list of the name becomes empty
OffFrame(n, h) ==
    /\ DOMAIN event_handlers' = DOMAIN event_handlers
    /\ \A m \in DOMAIN event_handlers \ {n} :
          event_handlers'[m] = event_handlers[m]
    /\ n \in DOMAIN event_handlers =>
          /\ h = NoHandler => event_handlers'[n] = << >>
          /\ h # NoHandler /\ ~Listed(event_handlers[n], h)
                => event_handlers'[n] = event_handlers[n]
    /\ UNCHANGED <<agents, tasks, task_results, events>>

\* C24 as stated: off(n) without a handler leaves the name with no handler;
\* off(n, h) takes h out of the list of n, so that a later _emit_event does
\* not invoke it, and leaves the other handlers of n in their order; the
\* lists of the other names are unchanged, and an unknown name or handler
\* changes nothing.
C24_Original ==
    [][\A n \in EventNames, h \in Handlers \cup {NoHandler} :
          Unsubscribes(n, h)
          => /\ OffFrame(n, h)
             /\ (n \in DOMAIN event_handlers /\ h # NoHandler
                   /\ Listed(event_handlers[n], h))
                => /\ ~Listed(event_handlers'[n], h)
                   /\ event_handlers'[n] =
                         SelectSeq(event_handlers[n], LAMBDA x : x # h)]_vars

\* C24 amended: off(n, h) takes the earliest registration of h out of the
\* list of n (a handler registered once is no longer invoked, one registered
\* several times is invoked once less) and leaves the other entries of the
\* list in their order; the rest as stated.
C24_OffRemovesEarliestRegistration ==
    [][\A n \in EventNames, h \in Handlers \cup {NoHandler} :
          Unsubscribes(n, h)
          => /\ OffFrame(n, h)
             /\ (n \in DOMAIN event_handlers /\ h # NoHandler
                   /\ Listed(event_handlers[n], h))
                => \E i \in 1..Len(event_handlers[n]) :
                      /\ event_handlers[n][i] = h
                      /\ \A j \in 1..(i - 1) : event_handlers[n][j] # h
                      /\ Len(event_handlers'[n]) = Len(event_handlers[n]) - 1
                      /\ \A j \in 1..Len(event_handlers'[n]) :
                            event_handlers'[n][j] =
                               event_handlers[n][IF j < i THEN j ELSE j + 1]]_vars

\* off(n, "f") was called for a name under which "f" was registered twice:
\* one registration is left
C24_Witness ==
    /\ elast.op = "off" /\ elast.handler = "f"
    /\ elast.name \in DOMAIN event_handlers
    /\ event_handlers[elast.name] = <<"f">>

(* ------------------------------- C25 ---------------------------------- *)
\* cleanup_completed_tasks(h) is called in this step
Cleans(h) ==
    /\ mlast'.op = "cleanup_completed_tasks" /\ mlast'.hours = h
    /\ cleanup_completed_tasks(h)

\* C25: cleanup_completed_tasks(h) removes exactly the stored results whose
\* completion time is strictly earlier than now minus h hours (a result
\* completed exactly at the cutoff is kept), leaves the kept results as they
\* are, returns the number of results it removed, and leaves every
\* TaskRequest and every agent untouched.
C25_CleanupRemovesStrictlyOlder ==
    [][\A h \in CleanupHours :
          Cleans(h)
          => /\ DOMAIN task_results' =
                   {t \in DOMAIN task_results :
                       task_results[t].completed_at >= now - h * 3600}
             /\ \A t \in DOMAIN task_results' :
                   task_results'[t] = task_results[t]
             /\ mlast'.removed = Cardinality(DOMAIN task_results)
                                    - Cardinality(DOMAIN task_results')
             /\ tasks' = tasks /\ agents' = agents]_vars

\* a cleanup removed one result and kept the one completed exactly at the
\* cutoff; both TaskRequests are still on file
C25_Witness ==
    /\ mlast.op = "cleanup_completed_tasks" /\ mlast.removed = 1
    /\ \E t \in DOMAIN task_results :
          task_results[t].completed_at = now - mlast.hours * 3600
    /\ Cardinality(DOMAIN tasks) = 2
    /\ Cardinality(DOMAIN task_results) = 1

(* ------------------------------- C26 ---------------------------------- *)
\* get_system_status() is called in this step
Reads(connected) ==
    /\ mlast'.op = "get_system_status"
    /\ get_system_status(connected)

\* C26: get_system_status is a read that does not suspend: the call is one
\* step, which changes no agent, task, result, handler or call in flight;
\* and in whatever state it is made its counts agree with the maps: agents
\* is the number of registered agents, idle agents the size of
\* get_idle_agents, tasks the number of TaskRequests, and successes plus
\* failures the number of stored TaskResults.
C26_StatusIsPureAndAgrees ==
    [][\A connected \in BOOLEAN :
          Reads(connected)
          => /\ agents' = agents /\ tasks' = tasks
             /\ task_results' = task_results
             /\ event_handlers' = event_handlers /\ events' = events
             /\ calls' = calls /\ last' = last
             /\ mlast'.status.total_agents = Cardinality(DOMAIN agents)
             /\ mlast'.status.idle_agents =
                   Cardinality({a \in DOMAIN agents :
                                   \A t \in DOMAIN tasks :
                                      tasks[t].agent_id # a})
             /\ mlast'.status.active_tasks = Cardinality(DOMAIN tasks)
             /\ mlast'.status.completed_tasks + mlast'.status.failed_tasks
                   = Cardinality(DOMAIN task_results)]_vars

\* the status was read while an assign_task was suspended in the adapter:
\* two agents, one of them idle, two TaskRequests, one success stored
C26_Witness ==
    /\ mlast.op = "get_system_status"
    /\ mlast.status.total_agents = 2 /\ mlast.status.idle_agents = 1
    /\ mlast.status.active_tasks = 2
    /\ mlast.status.completed_tasks = 1 /\ mlast.status.failed_tasks = 0
    /\ \E c \in Calls : calls[c].op = "assign" /\ calls[c].pc = "exec"


C28_PayloadCarriesTheRepoPathGiven ==
    clast.op = "run_agent" => sent.repo_path = clast.repo_path

\* a step of session.run that is seen: it appended, or it recorded a call
\* that differs from the last one
Runs ==
    /\ clast'.op = "run"
    /\ <<results, sent, clast>>' # <<results, sent, clast>>

\* C29: a session.run that returns appends the result it returns at the end
\* of session.results; a session.run that raises leaves session.results as
\* it was and its fault leaves the session; it raises AgentExecutionError
\* exactly when raise_on_error is True and the reply reports failure; no
\* other call changes session.results.
C29_ResultsHoldTheReturnedRunsInOrder ==
    [][/\ Runs =>
            /\ IF clast'.raised = ""
               THEN results' = Append(results, clast'.result)
               ELSE /\ results' = results
                    /\ clast'.raised \in {"AgentExecutionError", "HTTPError"}
            /\ (clast'.raised = "AgentExecutionError") <=>
                   /\ clast'.raise_on_error
                   /\ clast'.response.status = 200
                   /\ ~clast'.response.success
       /\ clast'.op # "run" => results' = results]_vars

C29_Witness ==
    /\ Len(results) = 2
    /\ results[1].success /\ ~results[2].success
    /\ clast.op = "run"
    /\ clast.raised = "AgentExecutionError"


\* C30: every cancel a destroy_agent invokes on the adapter is for a
\* TaskRequest of the agent being destroyed that has no stored TaskResult,
\* and is the first cancel of that task in the call.
C30_CancelStep ==
    \A c \in Calls :
       (calls'[c].op = "destroy" /\ calls'[c].pc = "cancel"
          /\ calls'[c] # calls[c]) =>
          LET before == IF calls[c].op = "destroy" THEN calls[c].attempted
                        ELSE {}
          IN  /\ Cardinality(calls'[c].attempted \ before) = 1
              /\ \A t \in calls'[c].attempted \ before :
                    /\ t \in DOMAIN tasks
                    /\ tasks[t].agent_id = calls'[c].agent
                    /\ t \notin DOMAIN task_results

C30_CancelOnlyOutstandingTasks == [][C30_CancelStep]_vars


\* C31: every assign_task that created a TaskRequest emits, in the step it
\* ends, exactly one event for that task, the TaskResult of the task being
\* stored by then, and the event is task_completed when the stored result
\* has success = true and task_failed when it has success = false.
C31_EventStep ==
    \A c \in Calls :
       Completed("assign", c) =>
          /\ calls[c].tid \in DOMAIN task_results'
          /\ events' =
                Append(events,
                       [name |-> IF task_results'[calls[c].tid].success
                                 THEN "task_completed" ELSE "task_failed",
                        id |-> calls[c].tid])

C31_EventMatchesStoredResult == [][C31_EventStep]_vars


\* C32: in every reachable state the TaskResult stored under task id T
\* carries the task id T and the agent id of the TaskRequest T.
C32_ResultCarriesTaskAndAgent ==
    \A t \in DOMAIN task_results :
       /\ task_results[t].id = t
       /\ t \in DOMAIN tasks
       /\ task_results[t].agent_id = tasks[t].agent_id


\* C33: while execute_agent runs for an assign_task, it runs under the task
\* id of the TaskRequest of that assign_task and its wait for the response
\* lasts the timeout of that TaskRequest, the one given to assign_task.
C33_ExecuteCarriesTaskIdAndTimeout ==
    \A w \in Calls :
       (waits[w].op = "execute_agent" /\ waits[w].task # NoId) =>
          /\ waits[w].key.id = waits[w].task
          /\ waits[w].timeout = tasks[waits[w].task].timeout


(* ------------------------------- C34 ---------------------------------- *)
\* the kinds of the well-formed envelopes the remote end sends
Kinds == {"task_result", "status_update", "cancel_result"}

\* the listener hands _handle_message an envelope of some kind that names
\* key k in this step
Dispatches(k) ==
    /\ wlast'.op = "_handle_message" /\ wlast'.key = k
    /\ wlast'.observed \in Kinds
    /\ _handle_message([type |-> wlast'.observed, task_id |-> k,
                        flag |-> wlast'.success])

\* C34: for every envelope the dispatcher handles, of whatever kind, the
\* wait registered under the key the envelope names is resolved: it holds
\* the payload and its entry is gone; so the reply to get_agent_status
\* resolves the wait under status_<id> and the reply to cancel_task the wait
\* under cancel_<id>.
C34_EveryKindResolvesItsKey ==
    [][\A k \in Keys :
          Dispatches(k) /\ k \in DOMAIN _message_handlers
          => /\ waits'[_message_handlers[k]].data.set
             /\ k \notin DOMAIN _message_handlers']_vars


(* ------------------------------- C40 ---------------------------------- *)
\* the malformed texts: not JSON, JSON that is no object, an object without
\* type and data
MalformedKinds == {"not_json", "non_object", "untyped"}

\* the listener reads a malformed text in this step
ReadsMalformed ==
    /\ wlast'.op = "_handle_message"
    /\ wlast'.observed \in MalformedKinds
    /\ _handle_message([type |-> wlast'.observed, task_id |-> Key("", NoId),
                        flag |-> FALSE])

\* C40: a malformed text is skipped: the listener that read it keeps
\* running (so the envelopes after it are still routed), no entry of the
\* handler table changes and no wait is touched.
C40_MalformedEnvelopeIsSkipped ==
    [][ReadsMalformed
       => /\ listener' = "running"
          /\ _message_handlers' = _message_handlers
          /\ waits' = waits]_vars


(* ------------------------------- C35 ---------------------------------- *)
\* C35: with auto-spawn enabled the spawn loop creates agents until,
\* eventually, the number of idle agents reaches min_idle_agents or the
\* number of live agents reaches max_agents.
C35_SpawnsUpToMinimumIdle ==
    <>(\/ Cardinality(get_idle_agents) >= min_idle_agents
       \/ Cardinality(DOMAIN agents) >= max_agents)


(* ------------------------------- C36 ---------------------------------- *)
\* C36: a destroy_agent that passed the registration check and resumes
\* after another destroy_agent removed the descriptor returns False without
\* raising and emits nothing, so that of two interleaved destroy_agent
\* calls for one id exactly one returns True and agent_destroyed is emitted
\* once (a call the entity collaborator itself fails is left aside).
C36_LateDestroyStep ==
    \A c \in Calls :
       (Completed("destroy", c) /\ calls[c].agent \notin DOMAIN agents
          /\ last'.fault # "EntityFault") =>
          /\ last'.fault = ""
          /\ last'.ret = "false"
          /\ events' = events

C36_InterleavedDestroyReturnsFalse == [][C36_LateDestroyStep]_vars


(* ------------------------------- C37 ---------------------------------- *)
\* C37: a create_agent that raises leaves no agent behind: one that raises
\* before its first await leaves the agent map as it was, and one that
\* raises after the entity collaborator failed has not left the descriptor
\* it built in the agent map, and neither emits an event.
C37_FailedCreateStep ==
    /\ (Immediate("create") /\ last'.fault # "") =>
          agents' = agents /\ events' = events
    /\ \A c \in Calls :
          (Completed("create", c) /\ last'.fault # "") =>
             /\ calls[c].agent \notin DOMAIN agents'
             /\ events' = events

C37_CreateIsAllOrNothing == [][C37_FailedCreateStep]_vars


(* ------------------------------- C38 ---------------------------------- *)
\* C38: when a wait that timed out resumes, every entry of the handler
\* table that another wait registered is still there afterwards, so that
\* the wait it belongs to can still be resolved.
C38_ExpiryKeepsOtherEntries ==
    [][\A w \in Calls :
          Resumes(w) /\ waits[w].pc = "expired"
          => \A k \in DOMAIN _message_handlers :
                _message_handlers[k] # w
                => /\ k \in DOMAIN _message_handlers'
                   /\ _message_handlers'[k] = _message_handlers[k]]_vars

(* ------------------------------- C39 ---------------------------------- *)
\* the number of times the handler h stands in the list hs
C39_Times(hs, h) == Cardinality({i \in 1..Len(hs) : hs[i] = h})

\* C39: when a handler unsubscribes itself or another handler from the
\* event name while _emit_event delivers that name, every other handler
\* that was registered under the name when _emit_event started and was not
\* itself unsubscribed is still invoked by this _emit_event, once per
\* registration.
C39_UnsubscribeDuringEmitSkipsNoOne ==
    [][\A name \in EventNames :
          (/\ Emits(name)
           /\ name \in DOMAIN event_handlers
           /\ event_handlers'[name] # event_handlers[name])
          => \A h \in ReentrantHandlers :
                C39_Times(event_handlers'[name], h)
                    = C39_Times(event_handlers[name], h)
                => C39_Times(elast'.invoked, h)
                      = C39_Times(event_handlers[name], h)]_vars

====
